---- MODULE Spec2Model ----
(***************************************************************************)
(* Model of ObjectMap<Object> (src/ObjectMap.hpp, the variant with the     *)
(* flat _tiles storage, lines 187-404): a grid of buckets of object        *)
(* handles plus a reverse index from handle to cell.                       *)
(*                                                                         *)
(* unsigned int is W bits wide here (32 in the build): every unsigned      *)
(* operation is taken modulo 2^W, int is the two's complement range of the *)
(* same width.                                                             *)
(***************************************************************************)
EXTENDS Integers, Sequences, FiniteSets, TLC

\* ---------------------------------------------------------------- bounds
\* Width in bits of unsigned int / int.
W == 3
\* Number of distinct object handles the callers use.
NumObjects == 2

\* ------------------------------------------------------- machine integers
RECURSIVE Pow2(_)
Pow2(n) == IF n = 0 THEN 1 ELSE 2 * Pow2(n - 1)

UIntMod == Pow2(W)
UIntMax == UIntMod - 1
IntMin == 0 - Pow2(W - 1)
IntMax == Pow2(W - 1) - 1
UInt == 0..UIntMax
Int_ == IntMin..IntMax

\* Conversion that takes the magnitude of a negative argument.
ToUnsignedAbs(i) == IF i < 0 THEN 0 - i ELSE i

\* Conversion int -> unsigned int of an argument (Cell(columns, rows) called
\* with int arguments): value modulo 2^W.
ToUnsigned(i) == i % UIntMod

\* unsigned int addition and multiplication.
UAdd(a, b) == (a + b) % UIntMod
UMul(a, b) == (a * b) % UIntMod

\* The value of _tiles.max_size() / sizeof(std::vector<Object*>), a platform
\* constant; taken below UINT_MAX (as on a platform whose size_t is as wide
\* as unsigned int) so that both branches of the constructor exist.
TileLimit == UIntMod - 2

\* ------------------------------------------------------------------ Cell
Cell(column, row) == [column |-> column, row |-> row]
\* Cell() default constructor.
Cell0 == Cell(0, 0)
\* Cell::operator+
CellAdd(lhs, rhs) == Cell(UAdd(lhs.column, rhs.column), UAdd(lhs.row, rhs.row))

\* Grids the operations are explored on: columns and rows with which the
\* constructor succeeds and the cell count columns*rows does not wrap.
\* One grid is wider than 2^(W-1) columns.
\* The smallest grid has two cells.
WideColumns == Pow2(W - 1) + 1
Grids == { <<3, 2>>, <<WideColumns, 1>>, <<2, 1>> }

VARIABLES
    status,     \* "new": constructor not yet run; "ok": constructed;
                \* "invalid" / "capacity": constructor threw
    COLUMNS,    \* _COLUMNS
    ROWS,       \* _ROWS
    tiles,      \* _tiles: sequence of buckets, bucket i of the code is tiles[i+1]
    objects,    \* _objects: function handle -> Cell, its domain = tracked handles
    last        \* the call the caller has just made and not yet resumed from:
                \* operation, arguments, result and the index state
                \* (objects, tiles) right before it; NoCall between calls

vars == <<status, COLUMNS, ROWS, tiles, objects, last>>

\* --------------------------------------------------------------- handles
\* The handles the callers pass: NumObjects of them, and one more on the
\* two-cell grid, where a bucket then holds three handles at once.
Objects == 1..(IF COLUMNS * ROWS <= 2 THEN NumObjects + 1 ELSE NumObjects)

\* The empty reverse index.
NoObjects == [o \in {} |-> Cell0]

\* ----------------------------------------------------------- constructor
\* Constructor that rejects only when both dimensions are zero.
ConstructorBothZero(columns, rows) ==
    IF columns = 0 /\ rows = 0
    THEN [status |-> "invalid", tiles |-> <<>>]
    ELSE IF UMul(rows, columns) <= TileLimit
         THEN [status |-> "ok",
               tiles |-> [i \in 1..UMul(columns, rows) |-> <<>>]]
         ELSE [status |-> "capacity", tiles |-> <<>>]

\* ObjectMap::ObjectMap(columns, rows): the outcome and the storage.
Constructor(columns, rows) ==
    IF columns = 0 \/ rows = 0
    THEN [status |-> "invalid", tiles |-> <<>>]
    ELSE IF UMul(rows, columns) <= TileLimit
         THEN [status |-> "ok",
               tiles |-> [i \in 1..UMul(columns, rows) |-> <<>>]]
         ELSE [status |-> "capacity", tiles |-> <<>>]

\* ------------------------------------------------------------- operations
\* Index into _tiles of cell (column, row): row * _COLUMNS + column.
TileIndex(cols, column, row) == UAdd(UMul(row, cols), column)

InBounds(cols, rows, column, row) == column < cols /\ row < rows

\* Contains(object)
Contains(objs, object) == object \in DOMAIN objs

\* Removal that drops the last element of the bucket, whichever it is.
RemovePopBack(seq, object) ==
    IF seq = <<>> THEN seq ELSE SubSeq(seq, 1, Len(seq) - 1)

\* Removal that overwrites the object with the last element of the bucket and
\* shortens the bucket by one.
RemoveSwapLast(seq, object) ==
    IF \E k \in 1..Len(seq) : seq[k] = object
    THEN LET k == CHOOSE k \in 1..Len(seq) : seq[k] = object
         IN [j \in 1..(Len(seq) - 1) |-> IF j = k THEN seq[Len(seq)] ELSE seq[j]]
    ELSE seq

\* std::remove + erase: all occurrences of object taken out, order kept.
Remove(seq, object) == SelectSeq(seq, LAMBDA x : x # object)

\* _objects[object]: inserts a default Cell when the key is absent.
Subscript(objs, object) ==
    IF object \in DOMAIN objs THEN objs ELSE objs @@ (object :> Cell0)

\* At(column, row): the bucket, or absent (nullptr).
At(cols, rows, tls, column, row) ==
    IF InBounds(cols, rows, column, row)
    THEN [present |-> TRUE, bucket |-> tls[TileIndex(cols, column, row) + 1]]
    ELSE [present |-> FALSE, bucket |-> <<>>]

\* GetPosition(object)
GetPosition(objs, object) ==
    IF Contains(objs, object)
    THEN [present |-> TRUE, cell |-> objs[object]]
    ELSE [present |-> FALSE, cell |-> Cell0]

\* Add without the duplicate check.
AddNoContainsCheck(cols, rows, objs, tls, object, column, row) ==
    IF InBounds(cols, rows, column, row)
    THEN LET i == TileIndex(cols, column, row) + 1
         IN [ret |-> TRUE,
             objects |-> (object :> Cell(column, row)) @@ objs,
             tiles |-> [tls EXCEPT ![i] = Append(@, object)]]
    ELSE [ret |-> FALSE, objects |-> objs, tiles |-> tls]

\* Add that puts the object at the front of the bucket.
AddPrepends(cols, rows, objs, tls, object, column, row) ==
    IF ~Contains(objs, object) /\ InBounds(cols, rows, column, row)
    THEN LET i == TileIndex(cols, column, row) + 1
         IN [ret |-> TRUE,
             objects |-> objs @@ (object :> Cell(column, row)),
             tiles |-> [tls EXCEPT ![i] = <<object>> \o @]]
    ELSE [ret |-> FALSE, objects |-> objs, tiles |-> tls]

\* Add(object, column, row)
Add(cols, rows, objs, tls, object, column, row) ==
    IF ~Contains(objs, object) /\ InBounds(cols, rows, column, row)
    THEN LET i == TileIndex(cols, column, row) + 1
         IN [ret |-> TRUE,
             objects |-> objs @@ (object :> Cell(column, row)),
             tiles |-> [tls EXCEPT ![i] = Append(@, object)]]
    ELSE [ret |-> FALSE, objects |-> objs, tiles |-> tls]

\* MoveTo that leaves the object in its old bucket.
MoveToNoErase(cols, rows, objs, tls, object, column, row) ==
    IF Contains(objs, object) /\ InBounds(cols, rows, column, row)
    THEN LET new == TileIndex(cols, column, row) + 1
         IN [ret |-> TRUE,
             objects |-> [objs EXCEPT ![object] = Cell(column, row)],
             tiles |-> [tls EXCEPT ![new] = Append(@, object)]]
    ELSE [ret |-> FALSE, objects |-> objs, tiles |-> tls]

\* MoveTo that erases the object from its bucket before it validates the
\* destination.
MoveToEraseFirst(cols, rows, objs, tls, object, column, row) ==
    IF Contains(objs, object)
    THEN LET position == objs[object]
             old == TileIndex(cols, position.column, position.row) + 1
             erased == [tls EXCEPT ![old] = Remove(@, object)]
             new == TileIndex(cols, column, row) + 1
         IN IF InBounds(cols, rows, column, row)
            THEN [ret |-> TRUE,
                  objects |-> [objs EXCEPT ![object] = Cell(column, row)],
                  tiles |-> [erased EXCEPT ![new] = Append(@, object)]]
            ELSE [ret |-> FALSE, objects |-> objs, tiles |-> erased]
    ELSE [ret |-> FALSE, objects |-> objs, tiles |-> tls]

\* MoveTo that erases the reverse-index entry and never writes it back.
MoveToForgetsEntry(cols, rows, objs, tls, object, column, row) ==
    IF Contains(objs, object) /\ InBounds(cols, rows, column, row)
    THEN LET position == objs[object]
             old == TileIndex(cols, position.column, position.row) + 1
             erased == [tls EXCEPT ![old] = Remove(@, object)]
             new == TileIndex(cols, column, row) + 1
         IN [ret |-> TRUE,
             objects |-> [o \in DOMAIN objs \ {object} |-> objs[o]],
             tiles |-> [erased EXCEPT ![new] = Append(@, object)]]
    ELSE [ret |-> FALSE, objects |-> objs, tiles |-> tls]

\* MoveTo that puts the object at the front of the destination bucket.
MoveToPrepends(cols, rows, objs, tls, object, column, row) ==
    IF Contains(objs, object) /\ InBounds(cols, rows, column, row)
    THEN LET position == objs[object]
             old == TileIndex(cols, position.column, position.row) + 1
             erased == [tls EXCEPT ![old] = Remove(@, object)]
             new == TileIndex(cols, column, row) + 1
         IN [ret |-> TRUE,
             objects |-> [objs EXCEPT ![object] = Cell(column, row)],
             tiles |-> [erased EXCEPT ![new] = <<object>> \o @]]
    ELSE [ret |-> FALSE, objects |-> objs, tiles |-> tls]

\* MoveTo(object, column, row)
MoveTo(cols, rows, objs, tls, object, column, row) ==
    IF Contains(objs, object) /\ InBounds(cols, rows, column, row)
    THEN LET position == objs[object]
             old == TileIndex(cols, position.column, position.row) + 1
             erased == [tls EXCEPT ![old] = Remove(@, object)]
             new == TileIndex(cols, column, row) + 1
         IN [ret |-> TRUE,
             objects |-> [objs EXCEPT ![object] = Cell(column, row)],
             tiles |-> [erased EXCEPT ![new] = Append(@, object)]]
    ELSE [ret |-> FALSE, objects |-> objs, tiles |-> tls]

\* MoveBy that hands the new row and column to MoveTo in the wrong order.
MoveBySwapped(cols, rows, objs, tls, object, dcolumns, drows) ==
    LET objs1 == Subscript(objs, object)
        newPosition == CellAdd(objs1[object],
                               Cell(ToUnsigned(dcolumns), ToUnsigned(drows)))
    IN IF InBounds(cols, rows, newPosition.column, newPosition.row)
       THEN MoveTo(cols, rows, objs1, tls, object,
                   newPosition.row, newPosition.column)
       ELSE [ret |-> FALSE, objects |-> objs1, tiles |-> tls]

\* MoveBy(object, columns, rows)
MoveBy(cols, rows, objs, tls, object, dcolumns, drows) ==
    LET objs1 == Subscript(objs, object)
        newPosition == CellAdd(objs1[object],
                               Cell(ToUnsigned(dcolumns), ToUnsigned(drows)))
    IN IF InBounds(cols, rows, newPosition.column, newPosition.row)
       THEN MoveTo(cols, rows, objs1, tls, object,
                   newPosition.column, newPosition.row)
       ELSE [ret |-> FALSE, objects |-> objs1, tiles |-> tls]

\* ------------------------------------------------------------ call record
Call(op, object, a, b, ret) ==
    [op |-> op, object |-> object, a |-> a, b |-> b, ret |-> ret,
     objects |-> objects, tiles |-> tiles]

NoCall == [op |-> "none", object |-> 0, a |-> 0, b |-> 0, ret |-> FALSE,
           objects |-> NoObjects, tiles |-> <<>>]

\* ---------------------------------------------------------------- states
\* State after a successful construction on one of the grids.
Init ==
    \E g \in Grids :
        LET m == Constructor(g[1], g[2])
        IN /\ m.status = "ok"
           /\ Len(m.tiles) = g[1] * g[2]
           /\ status = "ok"
           /\ COLUMNS = g[1]
           /\ ROWS = g[2]
           /\ tiles = m.tiles
           /\ objects = NoObjects
           /\ last = NoCall

\* State before construction, for any constructor arguments.
InitCtor ==
    /\ status = "new"
    /\ COLUMNS \in UInt
    /\ ROWS \in UInt
    /\ tiles = <<>>
    /\ objects = NoObjects
    /\ last = NoCall

Construct ==
    /\ status = "new"
    /\ LET m == Constructor(COLUMNS, ROWS)
       IN /\ status' = m.status
          /\ tiles' = m.tiles
    /\ last' = Call("Construct", 0, COLUMNS, ROWS, FALSE)
    /\ UNCHANGED <<COLUMNS, ROWS, objects>>

DoAdd ==
    /\ status = "ok"
    /\ last = NoCall
    /\ \E object \in Objects, column \in UInt, row \in UInt :
        LET r == Add(COLUMNS, ROWS, objects, tiles, object, column, row)
        IN /\ objects' = r.objects
           /\ tiles' = r.tiles
           /\ last' = Call("Add", object, column, row, r.ret)
    /\ UNCHANGED <<status, COLUMNS, ROWS>>

DoMoveTo ==
    /\ status = "ok"
    /\ last = NoCall
    /\ \E object \in Objects, column \in UInt, row \in UInt :
        LET r == MoveTo(COLUMNS, ROWS, objects, tiles, object, column, row)
        IN /\ objects' = r.objects
           /\ tiles' = r.tiles
           /\ last' = Call("MoveTo", object, column, row, r.ret)
    /\ UNCHANGED <<status, COLUMNS, ROWS>>

DoMoveBy ==
    /\ status = "ok"
    /\ last = NoCall
    /\ \E object \in Objects, dcolumns \in Int_, drows \in Int_ :
        LET r == MoveBy(COLUMNS, ROWS, objects, tiles, object, dcolumns, drows)
        IN /\ objects' = r.objects
           /\ tiles' = r.tiles
           /\ last' = Call("MoveBy", object, dcolumns, drows, r.ret)
    /\ UNCHANGED <<status, COLUMNS, ROWS>>

DoAt ==
    /\ status = "ok"
    /\ last = NoCall
    /\ \E column \in UInt, row \in UInt :
        last' = Call("At", 0, column, row,
                     At(COLUMNS, ROWS, tiles, column, row).present)
    /\ UNCHANGED <<status, COLUMNS, ROWS, tiles, objects>>

DoContains ==
    /\ status = "ok"
    /\ last = NoCall
    /\ \E object \in Objects :
        last' = Call("Contains", object, 0, 0, Contains(objects, object))
    /\ UNCHANGED <<status, COLUMNS, ROWS, tiles, objects>>

DoGetPosition ==
    /\ status = "ok"
    /\ last = NoCall
    /\ \E object \in Objects :
        last' = Call("GetPosition", object, 0, 0,
                     GetPosition(objects, object).present)
    /\ UNCHANGED <<status, COLUMNS, ROWS, tiles, objects>>

\* The caller resumes after the call: calls are synchronous, the next call
\* starts only when the previous one has returned.
Return ==
    /\ last # NoCall
    /\ last' = NoCall
    /\ UNCHANGED <<status, COLUMNS, ROWS, tiles, objects>>

Next ==
    \/ DoAdd
    \/ DoMoveTo
    \/ DoMoveBy
    \/ DoAt
    \/ DoContains
    \/ DoGetPosition
    \/ Return

Spec == Init /\ [][Next]_vars

NextCtor == Construct

SpecCtor == InitCtor /\ [][NextCtor]_vars

TypeOK ==
    /\ status \in {"new", "ok", "invalid", "capacity"}
    /\ COLUMNS \in UInt
    /\ ROWS \in UInt
    /\ DOMAIN objects \subseteq Objects
\* ------------------------------------------------------------ properties
\* Number of occurrences of x in a bucket.
Count(seq, x) == Len(SelectSeq(seq, LAMBDA y : y = x))

\* Number of occurrences of x in all buckets.
RECURSIVE TotalCount(_, _)
TotalCount(tls, x) ==
    IF tls = <<>> THEN 0 ELSE Count(Head(tls), x) + TotalCount(Tail(tls), x)

\* Bucket number (1-based) of cell (c, r), in unbounded arithmetic.
BucketOf(c, r) == r * COLUMNS + c + 1

\* A call has just returned.
Returned == last.op # "none"
\* The index is as it was before the last call.
StateUnchanged == objects = last.objects /\ tiles = last.tiles
\* The object of the last call was tracked before the call.
WasTracked == last.object \in DOMAIN last.objects
\* Arguments (a, b) of the last call, as coordinates, lie outside the grid.
OutOfBounds(c, r) == c >= COLUMNS \/ r >= ROWS

\* C1: every handle with a reverse-index entry (c, r) occurs exactly once in
\* bucket (c, r) and in no other bucket, after every call.
I1Forward ==
    \A o \in DOMAIN objects :
        \A i \in 1..Len(tiles) :
            Count(tiles[i], o) =
                IF i = BucketOf(objects[o].column, objects[o].row) THEN 1 ELSE 0

\* C2: every handle found in bucket (c, r) has a reverse-index entry and the
\* entry is (c, r), after every call.
I1Reverse ==
    \A i \in 1..Len(tiles) :
        \A k \in 1..Len(tiles[i]) :
            /\ tiles[i][k] \in DOMAIN objects
            /\ objects[tiles[i][k]].column = (i - 1) % COLUMNS
            /\ objects[tiles[i][k]].row = (i - 1) \div COLUMNS

\* A move between two different cells has happened and some bucket holds
\* two handles.
I1ReverseWitness ==
    /\ last.op \in {"MoveTo", "MoveBy"}
    /\ last.ret
    /\ WasTracked
    /\ last.objects[last.object] # objects[last.object]
    /\ \E i \in 1..Len(tiles) : Len(tiles[i]) >= 2

\* C3: MoveTo, MoveBy and GetPosition on a handle that is not tracked (it was
\* never added) return failure (absent) and leave the reverse index and every
\* bucket unchanged.
UntrackedFailSafe ==
    (last.op \in {"MoveTo", "MoveBy", "GetPosition"} /\ ~WasTracked)
        => (~last.ret /\ StateUnchanged)

\* C4: a handle goes from untracked to tracked only across a successful Add
\* of that handle.
OnlyAddTracks ==
    Returned =>
        \A o \in DOMAIN objects \ DOMAIN last.objects :
            last.op = "Add" /\ last.object = o /\ last.ret

\* C5: Add on a tracked handle returns failure for any coordinates, leaves
\* the index unchanged, and the handle occurs at most once over all buckets.
AddTrackedRejected ==
    (last.op = "Add" /\ WasTracked)
        => /\ ~last.ret
           /\ StateUnchanged
           /\ TotalCount(tiles, last.object) <= 1

\* Add on a tracked handle, with the coordinates of another in-bounds cell.
AddTrackedRejectedWitness ==
    /\ last.op = "Add"
    /\ WasTracked
    /\ ~OutOfBounds(last.a, last.b)
    /\ last.objects[last.object] # Cell(last.a, last.b)
    /\ TotalCount(tiles, last.object) = 1

NegativeRejected ==
    (/\ last.op = "MoveBy"
     /\ WasTracked
     /\ \/ last.objects[last.object].column + last.a < 0
        \/ last.objects[last.object].row + last.b < 0)
        => (~last.ret /\ StateUnchanged)

\* C8: the constructor, given positive columns and rows, fails with the
\* capacity error whenever columns * rows exceeds the bucket limit, and when
\* it succeeds the index holds exactly columns * rows empty buckets.
CapacityChecked ==
    last.op = "Construct" =>
        /\ (COLUMNS > 0 /\ ROWS > 0 /\ COLUMNS * ROWS > TileLimit)
              => status = "capacity"
        /\ status = "ok"
              => /\ Len(tiles) = COLUMNS * ROWS
                 /\ \A i \in 1..Len(tiles) : tiles[i] = <<>>

\* C9: a tracked handle stays tracked across every call.
NoUntrack ==
    Returned => DOMAIN last.objects \subseteq DOMAIN objects

\* A successful MoveTo with at least two handles tracked.
NoUntrackWitness ==
    /\ last.op = "MoveTo"
    /\ last.ret
    /\ Cardinality(DOMAIN last.objects) >= 2

\* The negation of an int delta is an int.
Negatable(d) == (0 - d) \in Int_

\* C10: after MoveBy(O, dx, dy) on a tracked handle O at P with P + (dx, dy)
\* in bounds, the call has succeeded and MoveBy(O, -dx, -dy) made next
\* succeeds and leaves GetPosition(O) = P.
RoundTrip ==
    (/\ last.op = "MoveBy"
     /\ WasTracked
     /\ last.objects[last.object].column + last.a \in 0..(COLUMNS - 1)
     /\ last.objects[last.object].row + last.b \in 0..(ROWS - 1)
     /\ Negatable(last.a)
     /\ Negatable(last.b))
        => /\ last.ret
           /\ LET back == MoveBy(COLUMNS, ROWS, objects, tiles, last.object,
                                 0 - last.a, 0 - last.b)
              IN /\ back.ret
                 /\ GetPosition(back.objects, last.object)
                        = [present |-> TRUE,
                           cell |-> last.objects[last.object]]

\* A MoveBy with a negative column delta and a positive row delta has
\* succeeded and the opposite MoveBy leads back.
RoundTripWitness ==
    /\ last.op = "MoveBy"
    /\ WasTracked
    /\ last.ret
    /\ last.a < 0
    /\ last.b > 0
    /\ objects[last.object] # last.objects[last.object]
    /\ MoveBy(COLUMNS, ROWS, objects, tiles, last.object,
              0 - last.a, 0 - last.b).objects[last.object]
           = last.objects[last.object]

\* C11: Add of an untracked handle h at an in-bounds (c, r) returns success;
\* afterwards Contains(h) holds, GetPosition(h) is (c, r), bucket (c, r) is
\* its previous contents with h appended, and every other bucket and every
\* other handle's reverse-index entry is unchanged.
AddSucceeds ==
    (last.op = "Add" /\ ~WasTracked /\ ~OutOfBounds(last.a, last.b))
        => /\ last.ret
           /\ Contains(objects, last.object)
           /\ GetPosition(objects, last.object)
                  = [present |-> TRUE, cell |-> Cell(last.a, last.b)]
           /\ Len(tiles) = Len(last.tiles)
           /\ \A i \in 1..Len(tiles) :
                  tiles[i] = IF i = BucketOf(last.a, last.b)
                             THEN Append(last.tiles[i], last.object)
                             ELSE last.tiles[i]
           /\ DOMAIN objects = DOMAIN last.objects \cup {last.object}
           /\ \A o \in DOMAIN last.objects : objects[o] = last.objects[o]

\* A successful Add into a bucket that already held a handle, in a row
\* other than the first.
AddSucceedsWitness ==
    /\ last.op = "Add"
    /\ ~WasTracked
    /\ last.ret
    /\ last.b > 0
    /\ last.tiles[BucketOf(last.a, last.b)] # <<>>
    /\ Len(tiles[BucketOf(last.a, last.b)]) >= 2

\* The set of handles of a bucket.
Range(seq) == { seq[k] : k \in 1..Len(seq) }

\* C12: MoveTo of a tracked handle h to the cell (c, r) it is recorded at
\* returns success, GetPosition(h) is still (c, r), bucket (c, r) contains h
\* exactly once and the same set of handles as before, and no other bucket
\* changes.
SelfMoveNoOp ==
    (/\ last.op = "MoveTo"
     /\ WasTracked
     /\ last.objects[last.object] = Cell(last.a, last.b))
        => /\ last.ret
           /\ GetPosition(objects, last.object)
                  = [present |-> TRUE, cell |-> Cell(last.a, last.b)]
           /\ Count(tiles[BucketOf(last.a, last.b)], last.object) = 1
           /\ Range(tiles[BucketOf(last.a, last.b)])
                  = Range(last.tiles[BucketOf(last.a, last.b)])
           /\ \A i \in 1..Len(tiles) :
                  i # BucketOf(last.a, last.b) => tiles[i] = last.tiles[i]

\* C13: the constructor fails with the invalid-dimensions error whenever
\* columns is zero or rows is zero, and no index is produced.
ZeroDimensionsRejected ==
    (last.op = "Construct" /\ (COLUMNS = 0 \/ ROWS = 0))
        => (status = "invalid" /\ tiles = <<>>)

\* The constructor has run with zero columns and a positive number of rows.
ZeroDimensionsRejectedWitness ==
    /\ last.op = "Construct"
    /\ COLUMNS = 0
    /\ ROWS > 0
    /\ status = "invalid"

\* There are objects at cell (c, r).
Occupied(c, r) == ~OutOfBounds(c, r) /\ tiles[BucketOf(c, r)] # <<>>

\* C14: At(column, row) returns absent (nullptr) if there are no objects at
\* the cell, and otherwise returns the sequence of objects at that cell.
AtAbsentIfEmpty ==
    last.op = "At" =>
        IF Occupied(last.a, last.b)
        THEN /\ last.ret
             /\ At(COLUMNS, ROWS, tiles, last.a, last.b).bucket
                    = tiles[BucketOf(last.a, last.b)]
        ELSE ~last.ret

\* C15: MoveTo of a tracked handle h at cell P to an in-bounds cell D # P
\* returns success; afterwards h is not in bucket P, h is the last element of
\* bucket D and occurs there exactly once, and GetPosition(h) is D.
MoveToSucceeds ==
    (/\ last.op = "MoveTo"
     /\ WasTracked
     /\ ~OutOfBounds(last.a, last.b)
     /\ last.objects[last.object] # Cell(last.a, last.b))
        => LET P == BucketOf(last.objects[last.object].column,
                             last.objects[last.object].row)
               D == BucketOf(last.a, last.b)
           IN /\ last.ret
              /\ Count(tiles[P], last.object) = 0
              /\ tiles[D] # <<>>
              /\ tiles[D][Len(tiles[D])] = last.object
              /\ Count(tiles[D], last.object) = 1
              /\ GetPosition(objects, last.object)
                     = [present |-> TRUE, cell |-> Cell(last.a, last.b)]

\* A successful MoveTo out of a bucket shared with another handle into a
\* different cell.
MoveToSucceedsWitness ==
    /\ last.op = "MoveTo"
    /\ WasTracked
    /\ last.ret
    /\ last.objects[last.object] # Cell(last.a, last.b)
    /\ LET P == BucketOf(last.objects[last.object].column,
                         last.objects[last.object].row)
       IN /\ Len(last.tiles[P]) >= 2
          /\ Count(last.tiles[P], last.object) = 1
          /\ Len(tiles[P]) >= 1

\* Buckets that the last call, a move of last.object, may change: the bucket
\* of the cell the handle was recorded at, and the bucket it was moved to.
SourceAndDestination ==
    (IF WasTracked
     THEN {BucketOf(last.objects[last.object].column,
                    last.objects[last.object].row)}
     ELSE {})
    \cup
    (IF last.ret
     THEN {BucketOf(objects[last.object].column, objects[last.object].row)}
     ELSE {})

\* C16: a MoveTo or MoveBy call on handle h, successful or rejected, leaves
\* unchanged the reverse-index entry of every other handle, the membership of
\* every other handle in every bucket, and the contents of every bucket other
\* than h's source and destination buckets.
MoveFrame ==
    last.op \in {"MoveTo", "MoveBy"} =>
        /\ \A o \in (DOMAIN objects \cup DOMAIN last.objects) \ {last.object} :
              /\ o \in DOMAIN objects
              /\ o \in DOMAIN last.objects
              /\ objects[o] = last.objects[o]
        /\ Len(tiles) = Len(last.tiles)
        /\ \A i \in 1..Len(tiles) :
              /\ \A o \in Objects \ {last.object} :
                    Count(tiles[i], o) = Count(last.tiles[i], o)
              /\ i \notin SourceAndDestination => tiles[i] = last.tiles[i]

\* A successful move of a handle out of a bucket it shared with another
\* handle.
MoveFrameWitness ==
    /\ last.op \in {"MoveTo", "MoveBy"}
    /\ WasTracked
    /\ last.ret
    /\ objects[last.object] # last.objects[last.object]
    /\ \E o \in DOMAIN last.objects \ {last.object} :
          last.objects[o] = last.objects[last.object]
    /\ last.tiles[BucketOf(last.objects[last.object].column,
                           last.objects[last.object].row)][1] = last.object

\* C17: for a tracked handle h at (c, r) and deltas with 0 <= c + dx < COLUMNS
\* and 0 <= r + dy < ROWS, MoveBy(h, dx, dy) returns the same result and
\* produces the same index state as MoveTo(h, c + dx, r + dy) from the same
\* starting state.
MoveByIsMoveTo ==
    (/\ last.op = "MoveBy"
     /\ WasTracked
     /\ last.objects[last.object].column + last.a \in 0..(COLUMNS - 1)
     /\ last.objects[last.object].row + last.b \in 0..(ROWS - 1))
        => LET to == MoveTo(COLUMNS, ROWS, last.objects, last.tiles,
                            last.object,
                            last.objects[last.object].column + last.a,
                            last.objects[last.object].row + last.b)
           IN /\ last.ret = to.ret
              /\ objects = to.objects
              /\ tiles = to.tiles

\* A MoveBy of a tracked handle by a negative column delta and a positive
\* row delta, out of a bucket shared with another handle.
MoveByIsMoveToWitness ==
    /\ last.op = "MoveBy"
    /\ WasTracked
    /\ last.ret
    /\ last.a < 0
    /\ last.b > 0
    /\ last.objects[last.object].column + last.a >= 0
    /\ Len(last.tiles[BucketOf(last.objects[last.object].column,
                               last.objects[last.object].row)]) >= 2

\* The handles of a bucket other than h, in the order the bucket lists them.
Others(seq, h) == SelectSeq(seq, LAMBDA x : x # h)

\* C18: buckets list their handles in the order of their latest arrival:
\* a successful Add, or a successful MoveTo or MoveBy of a tracked handle h
\* (a self-move included), puts h at the end of the bucket of its new cell,
\* and every bucket keeps its other handles in the order they had.
ArrivalOrder ==
    (/\ last.op \in {"Add", "MoveTo", "MoveBy"}
     /\ last.ret
     /\ (last.op = "Add" \/ WasTracked))
        => /\ Len(tiles) = Len(last.tiles)
           /\ \A i \in 1..Len(tiles) :
                  tiles[i] =
                      IF i = BucketOf(objects[last.object].column,
                                      objects[last.object].row)
                      THEN Append(Others(last.tiles[i], last.object),
                                  last.object)
                      ELSE Others(last.tiles[i], last.object)

\* A handle that was first in a bucket of three has been moved to the other
\* cell, two handles staying behind.
ArrivalOrderWitness ==
    /\ last.op \in {"MoveTo", "MoveBy"}
    /\ WasTracked
    /\ last.ret
    /\ objects[last.object] # last.objects[last.object]
    /\ LET P == BucketOf(last.objects[last.object].column,
                         last.objects[last.object].row)
       IN /\ Len(last.tiles[P]) = 3
          /\ last.tiles[P][1] = last.object
          /\ Len(tiles[P]) = 2

\* The in-bounds cells of the grid.
Cells == (0..(COLUMNS - 1)) \X (0..(ROWS - 1))

\* C19: in every state of a successfully constructed index the number of
\* buckets is COLUMNS * ROWS and no call changes it, every reverse-index entry
\* is an in-bounds cell, and the bucket index row * COLUMNS + column the
\* operations compute for an in-bounds cell is r * COLUMNS + c, lies in
\* 0..COLUMNS*ROWS-1 and differs for different cells.
AddressingInRange ==
    status = "ok" =>
        /\ Len(tiles) = COLUMNS * ROWS
        /\ last.op \in {"Add", "MoveTo", "MoveBy", "At", "Contains",
                        "GetPosition"}
              => Len(tiles) = Len(last.tiles)
        /\ \A o \in DOMAIN objects :
              objects[o].column < COLUMNS /\ objects[o].row < ROWS
        /\ \A p \in Cells :
              /\ TileIndex(COLUMNS, p[1], p[2]) = p[2] * COLUMNS + p[1]
              /\ TileIndex(COLUMNS, p[1], p[2]) < Len(tiles)
        /\ \A p \in Cells : \A q \in Cells :
              TileIndex(COLUMNS, p[1], p[2]) = TileIndex(COLUMNS, q[1], q[2])
                  => p = q
====
